---- MODULE Spec2Model ----
(***************************************************************************)
(* The model version store of the MLOps platform: class ModelVersioning of *)
(* src/api/main.py (and its older copy in src/versioning), the files the   *)
(* store keeps under model_versions/, the active artifacts under models/   *)
(* and the wall clock the version ids and created_at stamps are read from. *)
(***************************************************************************)
EXTENDS Integers, Sequences, FiniteSets, TLC

\* ------------------------------------------------------------------ bounds
\* last clock second and last sub-second tick the model explores
MaxSec == 1
MaxUsec == 1
\* most version directories the store holds at one time
MaxDirs == 2

\* most version directories the store holds when the train endpoint
\* answers
MaxTrainDirs == 3

\* ------------------------------------------------------------- value sets
Models == {"fraud_detection", "price_prediction"}

\* the models the train endpoint trains, in the order it versions them
TrainOrder == <<"fraud_detection", "price_prediction", "customer_segmentation">>

ServedModels == {TrainOrder[i] : i \in DOMAIN TrainOrder}

\* the model names a request can carry: those of the trained models and a
\* name that one of them starts with
ModelNames == Models \cup ServedModels \cup {"fraud"}

\* n.startswith(m) for two model names
IsPrefix(m, n) == m = n \/ (m = "fraud" /\ n = "fraud_detection")

\* a file content: the identity of a byte string
Contents == {1, 2, 3}

\* caller-supplied metadata mappings
MetaVals == {"auto", "manual"}

\* the two copies of class ModelVersioning
Impls == {"api", "versioning"}

\* a path with no file, a missing directory, a missing metadata.json, a
\* metadata.json that is opened for writing and holds no JSON document
\* yet, Python's None, a key a mapping does not have, no version id
NoFile == 0
NoDir == [none |-> "dir"]
NoMeta == [none |-> "meta"]
Torn == [none |-> "torn"]
None == [none |-> "None"]
Absent == -1
NoVid == <<>>

\* models/<model_name>_model.pkl
ActiveFile(m) == m \o "_model.pkl"

\* models/<model_name>_scaler.pkl
ScalerFile(m) == m \o "_scaler.pkl"

\* models/<model_name>.pkl
PlainFile(m) == m \o ".pkl"

\* the files a caller can name as model_file, each known by its base name
Paths ==
  {ActiveFile(m) : m \in ModelNames} \cup {ScalerFile(m) : m \in ServedModels}
    \cup {"a.bin"}

\* f.endswith('.pkl')
EndsWithPkl(f) == f # "a.bin"

\* the bytes of a fitted scaler
ScalerContent == 1

\* a file that open(.., "wb") has just cut to length zero, and a file that
\* holds the bytes of one artifact followed by the tail of a longer one
Truncated == 4
Mixed == 5

\* os.path.getsize of a file with content c
FileSize(c) ==
  IF c = Truncated THEN 0
  ELSE IF c = Mixed THEN 2
  ELSE (c + 1) \div 2

\* what a file holding x holds after the bytes of s are written from its
\* start: s, unless x was longer and its tail stays
WriteOver(x, s) == IF FileSize(s) >= FileSize(x) THEN s ELSE Mixed

\* hashlib.sha256(...).hexdigest() of content c, as a sequence of hex
\* digits: distinct contents have distinct digests, but the first eight
\* digits of two digests can coincide (contents 1 and 3)
CalculateFileHash(c) == <<0, 0, 0, 0, 0, 0, 0, c % 2, c \div 2>>

\* the [:8] of generate_version_id
Hash8Len == 8

Hash8(h) == SubSeq(h, 1, Hash8Len)

Times == (0 .. MaxSec) \X (0 .. MaxUsec)

TimeLeq(a, b) == a[1] < b[1] \/ (a[1] = b[1] /\ a[2] <= b[2])

\* strftime("%Y%m%d_%H%M%S"): the clock reading cut to whole seconds
StrfTime(t) == t[1]

\* datetime.isoformat(): the fractional part is left out when it is zero
IsoFormat(t) == IF t[2] = 0 THEN <<t[1]>> ELSE <<t[1], t[2]>>

\* f"v{timestamp}_{file_hash}"
VersionId(ts, h8) == <<"v", ts, h8>>

VersionIds == {VersionId(s, Hash8(CalculateFileHash(c))) : s \in 0 .. MaxSec, c \in Contents}

\* ------------------------------------------------------------------ state
VARIABLES
  files,   \* models/ and the other source files: base name -> content
  mdirs,   \* the model names that have a directory under model_versions/
  store,   \* model_versions/<model>/<version id>/ : directory or NoDir
  now,     \* the wall clock, <<second, sub-second tick>>
  last,    \* the call that returned last: operation, arguments, result
  calls    \* the create_version calls under way, one per caller

vars == <<files, mdirs, store, now, last, calls>>

EmptyDir == [files |-> <<>>, meta |-> NoMeta]

\* generate_version_id: clock reading t, content c of model_file
GenerateVersionId(t, c) == VersionId(StrfTime(t), Hash8(CalculateFileHash(c)))

\* os.makedirs(version_dir, exist_ok=True)
MakeDirs(d) == IF d = NoDir THEN EmptyDir ELSE d

\* shutil.copy2(model_file, version_dir): the copy takes the base name of
\* the source and replaces a file of that name
Copy2(d, name, c) ==
  [d EXCEPT !.files = [f \in (DOMAIN d.files) \cup {name} |->
                         IF f = name THEN c ELSE d.files[f]]]

\* the version_metadata mapping; hc and sc are the contents of model_file
\* at the moment it is hashed and at the moment its size is taken
VersionMetadata(impl, version, m, t, md, hc, sc) ==
  [version |-> version,
   model_name |-> m,
   created_at |-> IsoFormat(t),
   created_by |-> "asarekings",
   metadata |-> md,
   file_hash |-> CalculateFileHash(hc),
   file_size_bytes |-> IF impl = "api" THEN FileSize(sc) ELSE Absent]

\* open(version_dir/metadata.json, "w") ; json.dump
WriteMetadata(d, meta) == [d EXCEPT !.meta = meta]

\* the version directories of model m that exist
Entries(m) == {v \in VersionIds : store[m][v] # NoDir}

\* the number of version directories in the store st
NumDirsOf(st) ==
  Cardinality({mv \in ModelNames \X VersionIds : st[mv[1]][mv[2]] # NoDir})

NumDirs == NumDirsOf(store)

\* the artifact files of a version directory
Artifacts(d) == DOMAIN d.files

\* a < b for Python strings, here sequences of numbers: the first
\* difference decides, and a proper prefix is the smaller one
RECURSIVE StrLess(_, _)
StrLess(a, b) ==
  IF b = <<>> THEN FALSE
  ELSE IF a = <<>> THEN TRUE
  ELSE IF Head(a) # Head(b) THEN Head(a) < Head(b)
  ELSE StrLess(Tail(a), Tail(b))

\* the same step without reverse=True: oldest first
RECURSIVE InsertAsc(_, _)
InsertAsc(s, x) ==
  IF s = <<>> THEN <<x>>
  ELSE IF StrLess(x.created_at, Head(s).created_at) THEN <<x>> \o s
  ELSE <<Head(s)>> \o InsertAsc(Tail(s), x)

\* one step of sorted(..., reverse=True): x goes behind every record whose
\* key is not smaller than its own (the sort is stable)
RECURSIVE InsertDesc(_, _)
InsertDesc(s, x) ==
  IF s = <<>> THEN <<x>>
  ELSE IF StrLess(Head(s).created_at, x.created_at) THEN <<x>> \o s
  ELSE <<Head(s)>> \o InsertDesc(Tail(s), x)

\* sorted(versions, key=lambda x: x["created_at"], reverse=True)
RECURSIVE SortedByCreatedAtDesc(_)
SortedByCreatedAtDesc(s) ==
  IF s = <<>> THEN <<>>
  ELSE InsertDesc(SortedByCreatedAtDesc(SubSeq(s, 1, Len(s) - 1)), s[Len(s)])

\* the orders os.listdir(model_dir) can return the entries in
ListDirOrders(m) ==
  LET n == Cardinality(Entries(m))
  IN {o \in [1 .. n -> Entries(m)] : \A i, j \in 1 .. n : i # j => o[i] # o[j]}

\* the loop of list_versions over the entries in the order o
RECURSIVE LoadMetadata(_, _)
LoadMetadata(m, o) ==
  IF o = <<>> THEN <<>>
  ELSE IF store[m][Head(o)].meta # NoMeta
       THEN <<store[m][Head(o)].meta>> \o LoadMetadata(m, Tail(o))
       ELSE LoadMetadata(m, Tail(o))

\* list_versions without its os.path.exists(model_dir) test: os.listdir
\* of a missing model_dir raises
ListVersionsNoRootCheck(m, o) ==
  IF m \notin mdirs THEN <<[error |-> "FileNotFoundError"]>>
  ELSE SortedByCreatedAtDesc(LoadMetadata(m, o))

\* list_versions(model_name) when os.listdir returns the order o; json.load
\* raises on a metadata.json that holds no complete document
ListVersions(m, o) ==
  IF m \notin mdirs THEN <<>>
  ELSE IF \E i \in 1 .. Len(o) : store[m][o[i]].meta = Torn
       THEN <<[error |-> "JSONDecodeError"]>>
       ELSE SortedByCreatedAtDesc(LoadMetadata(m, o))

\* get_latest_version taking versions[-1]
GetLatestVersionLast(m, o) ==
  LET versions == ListVersions(m, o)
  IN IF versions # <<>> THEN versions[Len(versions)] ELSE None

\* get_latest_version(model_name) when os.listdir returns the order o
GetLatestVersion(m, o) ==
  LET versions == ListVersions(m, o)
  IN IF versions # <<>> THEN versions[1] ELSE None

\* os.path.exists(<versions_dir>/m/v/metadata.json)
MetadataExists(m, v) ==
  m \in mdirs /\ store[m][v] # NoDir /\ store[m][v].meta # NoMeta

\* v_data.get("file_size_bytes", 0)
GetFileSizeBytes(data) ==
  IF data.file_size_bytes = Absent THEN 0 ELSE data.file_size_bytes

\* one of the "version_1" / "version_2" entries of the comparison
VersionEntry(v, data) ==
  [version |-> v,
   created_at |-> data.created_at,
   file_hash |-> data.file_hash,
   file_size |-> GetFileSizeBytes(data),
   metadata |-> data.metadata]

\* the mapping get_version_comparison returns for two loaded records,
\* with sd as its "size_difference"
ComparisonResult(m, v1, v2, d1, d2, sd) ==
  [model_name |-> m,
   version_1 |-> VersionEntry(v1, d1),
   version_2 |-> VersionEntry(v2, d2),
   comparison |-> [same_hash |-> d1.file_hash = d2.file_hash,
                   size_difference |-> sd,
                   time_difference |-> StrLess(d1.created_at, d2.created_at)],
   compared_by |-> "asarekings"]

NotFoundResult == [error |-> "One or both versions not found"]

\* json.load of the metadata.json of version v, None when there is none
LoadVersionData(m, v) == IF MetadataExists(m, v) THEN store[m][v].meta ELSE None

\* get_version_comparison reporting the size of version2 as the difference
GetVersionComparisonSizeOfSecond(m, v1, v2) ==
  LET v1_data == LoadVersionData(m, v1)
      v2_data == LoadVersionData(m, v2)
  IN IF v1_data = Torn \/ v2_data = Torn THEN [raised |-> "JSONDecodeError"]
     ELSE IF v1_data = None \/ v2_data = None THEN NotFoundResult
     ELSE ComparisonResult(m, v1, v2, v1_data, v2_data, GetFileSizeBytes(v2_data))

\* get_version_comparison subtracting the size of version2 from that of
\* version1
GetVersionComparisonFirstMinusSecond(m, v1, v2) ==
  LET v1_data == LoadVersionData(m, v1)
      v2_data == LoadVersionData(m, v2)
  IN IF v1_data = Torn \/ v2_data = Torn THEN [raised |-> "JSONDecodeError"]
     ELSE IF v1_data = None \/ v2_data = None THEN NotFoundResult
     ELSE ComparisonResult(m, v1, v2, v1_data, v2_data,
                           GetFileSizeBytes(v1_data) - GetFileSizeBytes(v2_data))

\* get_version_comparison testing "not v1_data and not v2_data": with one
\* record missing it goes on to subscript None
GetVersionComparisonAnd(m, v1, v2) ==
  LET v1_data == LoadVersionData(m, v1)
      v2_data == LoadVersionData(m, v2)
  IN IF v1_data = Torn \/ v2_data = Torn THEN [raised |-> "JSONDecodeError"]
     ELSE IF v1_data = None /\ v2_data = None THEN NotFoundResult
     ELSE IF v1_data = None \/ v2_data = None THEN [raised |-> "TypeError"]
     ELSE ComparisonResult(m, v1, v2, v1_data, v2_data,
                           GetFileSizeBytes(v2_data) - GetFileSizeBytes(v1_data))

\* get_version_comparison(model_name, version1, version2); json.load
\* raises on a metadata.json that holds no complete document
GetVersionComparison(m, v1, v2) ==
  LET v1_data == LoadVersionData(m, v1)
      v2_data == LoadVersionData(m, v2)
  IN IF v1_data = Torn \/ v2_data = Torn THEN [raised |-> "JSONDecodeError"]
     ELSE IF v1_data = None \/ v2_data = None THEN NotFoundResult
     ELSE ComparisonResult(m, v1, v2, v1_data, v2_data,
                           GetFileSizeBytes(v2_data) - GetFileSizeBytes(v1_data))

\* the record of a returned call
Call(op, m, v, res) == [op |-> op, model |-> m, vid |-> v, res |-> res]

NoCall == Call("init", "-", NoVid, "-")

\* the callers that can have a create_version call under way
Callers == {"c1", "c2"}

Idle == [pc |-> "idle"]

Init ==
  /\ calls = [c \in Callers |-> Idle]
  /\ files = [p \in Paths |-> IF p = "a.bin" THEN 1 ELSE NoFile]
  /\ mdirs = {}
  /\ store = [m \in ModelNames |-> [v \in VersionIds |-> NoDir]]
  /\ now = <<0, 0>>
  /\ last = NoCall

\* the wall clock moves on
Tick ==
  /\ \E t \in Times : t # now /\ TimeLeq(now, t) /\ now' = t
  /\ last' = Call("tick", "-", NoVid, "-")
  /\ UNCHANGED <<files, mdirs, store, calls>>

\* a training run saves the model it trained and its scaler:
\* joblib.dump(model, ...) ; joblib.dump(scaler, ...)
TrainModel(m, c) ==
  /\ files' = [files EXCEPT ![ActiveFile(m)] = c,
                            ![ScalerFile(m)] = ScalerContent]
  /\ last' = Call("train", m, NoVid, "-")
  /\ UNCHANGED <<mdirs, store, now, calls>>

\* create_version making model_dir before it looks at model_file
CreateVersionMakesDirsFirst(impl, m, p, md, t2) ==
  IF files[p] = NoFile
  THEN /\ mdirs' = mdirs \cup {m}
       /\ last' = Call("create_version", m, NoVid, "FileNotFoundError")
       /\ UNCHANGED <<files, store, now, calls>>
  ELSE LET version == GenerateVersionId(now, files[p])
           d1 == MakeDirs(store[m][version])
           d2 == Copy2(d1, p, files[p])
           meta == VersionMetadata(impl, version, m, t2, md, files[p], files[p])
           d3 == WriteMetadata(d2, meta)
       IN /\ TimeLeq(now, t2)
          /\ store[m][version] # NoDir \/ NumDirs < MaxDirs
          /\ mdirs' = mdirs \cup {m}
          /\ store' = [store EXCEPT ![m][version] = d3]
          /\ now' = t2
          /\ last' = Call("create_version", m, version, "version")
          /\ UNCHANGED <<files, calls>>

\* create_version with a retention of one: the older version directories
\* of the model are removed when a new one is made
CreateVersionExpiresOld(impl, m, p, md, t2) ==
  IF files[p] = NoFile
  THEN /\ last' = Call("create_version", m, NoVid, "FileNotFoundError")
       /\ UNCHANGED <<files, mdirs, store, now, calls>>
  ELSE LET version == GenerateVersionId(now, files[p])
           d1 == MakeDirs(store[m][version])
           d2 == Copy2(d1, p, files[p])
           meta == VersionMetadata(impl, version, m, t2, md, files[p], files[p])
           d3 == WriteMetadata(d2, meta)
       IN /\ TimeLeq(now, t2)
          /\ store[m][version] # NoDir \/ NumDirs < MaxDirs
          /\ mdirs' = mdirs \cup {m}
          /\ store' = [store EXCEPT ![m] =
                         [w \in VersionIds |-> IF w = version THEN d3 ELSE NoDir]]
          /\ now' = t2
          /\ last' = Call("create_version", m, version, "version")
          /\ UNCHANGED <<files, calls>>

\* create_version(model_name, model_file, metadata), run from call to
\* return with nothing in between; t2 is the clock when created_at is read
CreateVersion(impl, m, p, md, t2) ==
  IF files[p] = NoFile
  THEN /\ last' = Call("create_version", m, NoVid, "FileNotFoundError")
       /\ UNCHANGED <<files, mdirs, store, now, calls>>
  ELSE LET version == GenerateVersionId(now, files[p])
           d1 == MakeDirs(store[m][version])
           d2 == Copy2(d1, p, files[p])
           meta == VersionMetadata(impl, version, m, t2, md, files[p], files[p])
           d3 == WriteMetadata(d2, meta)
       IN /\ TimeLeq(now, t2)
          /\ store[m][version] # NoDir \/ NumDirs < MaxDirs
          /\ mdirs' = mdirs \cup {m}
          /\ store' = [store EXCEPT ![m][version] = d3]
          /\ now' = t2
          /\ last' = Call("create_version", m, version, "version")
          /\ UNCHANGED <<files, calls>>

\* list_versions(model_name)
ListVersionsCall(m) ==
  /\ \E o \in ListDirOrders(m) :
       LET r == ListVersions(m, o)
       IN last' = Call("list_versions", m, NoVid,
                       IF r = <<>> THEN "empty"
                       ELSE IF "error" \in DOMAIN r[1] THEN r[1].error
                       ELSE "records")
  /\ UNCHANGED <<files, mdirs, store, now, calls>>

\* get_latest_version(model_name)
GetLatestVersionCall(m) ==
  /\ \E o \in ListDirOrders(m) :
       LET r == GetLatestVersion(m, o)
       IN last' = Call("get_latest_version", m,
                       IF r = None THEN NoVid ELSE r.version,
                       IF r = None THEN "None" ELSE "record")
  /\ UNCHANGED <<files, mdirs, store, now, calls>>

\* the files of a version directory that rollback_to_version can find
ModelFiles(d) == {f \in Artifacts(d) : EndsWithPkl(f)}

\* rollback_to_version reporting success without the copy reaching the
\* active artifact
RollbackToVersionNoCopy(m, v) ==
  IF store[m][v] = NoDir
  THEN /\ last' = Call("rollback_to_version", m, v, "ValueError")
       /\ UNCHANGED <<files, mdirs, store, now, calls>>
  ELSE IF ModelFiles(store[m][v]) # {}
  THEN /\ last' = Call("rollback_to_version", m, v, "true")
       /\ UNCHANGED <<files, mdirs, store, now, calls>>
  ELSE /\ last' = Call("rollback_to_version", m, v, "false")
       /\ UNCHANGED <<files, mdirs, store, now, calls>>

\* rollback_to_version without a not-found error: a missing version
\* directory is created empty and False is returned
RollbackToVersionMakesDir(m, v) ==
  IF store[m][v] = NoDir
  THEN /\ store' = [store EXCEPT ![m][v] = EmptyDir]
       /\ mdirs' = mdirs \cup {m}
       /\ last' = Call("rollback_to_version", m, v, "false")
       /\ UNCHANGED <<files, now, calls>>
  ELSE IF ModelFiles(store[m][v]) # {}
  THEN /\ \E f \in ModelFiles(store[m][v]) :
            files' = [files EXCEPT ![ActiveFile(m)] = store[m][v].files[f]]
       /\ last' = Call("rollback_to_version", m, v, "true")
       /\ UNCHANGED <<mdirs, store, now, calls>>
  ELSE /\ last' = Call("rollback_to_version", m, v, "false")
       /\ UNCHANGED <<files, mdirs, store, now, calls>>

\* rollback_to_version with shutil.move in place of shutil.copy2: the
\* artifact leaves the version directory
RollbackToVersionMoves(m, v) ==
  IF store[m][v] = NoDir
  THEN /\ last' = Call("rollback_to_version", m, v, "ValueError")
       /\ UNCHANGED <<files, mdirs, store, now, calls>>
  ELSE IF ModelFiles(store[m][v]) # {}
  THEN /\ \E f \in ModelFiles(store[m][v]) :
            /\ files' = [files EXCEPT ![ActiveFile(m)] = store[m][v].files[f]]
            /\ store' = [store EXCEPT ![m][v].files =
                           [g \in (DOMAIN @) \ {f} |-> @[g]]]
       /\ last' = Call("rollback_to_version", m, v, "true")
       /\ UNCHANGED <<mdirs, now, calls>>
  ELSE /\ last' = Call("rollback_to_version", m, v, "false")
       /\ UNCHANGED <<files, mdirs, store, now, calls>>

\* rollback_to_version that also notes the rollback in the metadata.json
\* of the version it restores
RollbackToVersionMarksRecord(m, v) ==
  IF store[m][v] = NoDir
  THEN /\ last' = Call("rollback_to_version", m, v, "ValueError")
       /\ UNCHANGED <<files, mdirs, store, now, calls>>
  ELSE IF ModelFiles(store[m][v]) # {}
  THEN /\ \E f \in ModelFiles(store[m][v]) :
            files' = [files EXCEPT ![ActiveFile(m)] = store[m][v].files[f]]
       /\ store' = [store EXCEPT ![m][v].meta =
                      IF @ \in {NoMeta, Torn} THEN @
                      ELSE [@ EXCEPT !.created_by = "rollback"]]
       /\ last' = Call("rollback_to_version", m, v, "true")
       /\ UNCHANGED <<mdirs, now, calls>>
  ELSE /\ last' = Call("rollback_to_version", m, v, "false")
       /\ UNCHANGED <<files, mdirs, store, now, calls>>

\* rollback_to_version(model_name, version_id); f is model_files[0], the
\* first .pkl file in the order os.listdir happens to return
RollbackToVersion(m, v) ==
  IF store[m][v] = NoDir
  THEN /\ last' = Call("rollback_to_version", m, v, "ValueError")
       /\ UNCHANGED <<files, mdirs, store, now, calls>>
  ELSE IF ModelFiles(store[m][v]) # {}
  THEN /\ \E f \in ModelFiles(store[m][v]) :
            files' = [files EXCEPT ![ActiveFile(m)] = store[m][v].files[f]]
       /\ last' = Call("rollback_to_version", m, v, "true")
       /\ UNCHANGED <<mdirs, store, now, calls>>
  ELSE /\ last' = Call("rollback_to_version", m, v, "false")
       /\ UNCHANGED <<files, mdirs, store, now, calls>>

\* delete_version removing the artifact files and leaving metadata.json
DeleteVersionKeepsMetadata(m, v) ==
  IF store[m][v] # NoDir
  THEN /\ store' = [store EXCEPT ![m][v] = [@ EXCEPT !.files = <<>>]]
       /\ last' = Call("delete_version", m, v, "true")
       /\ UNCHANGED <<files, mdirs, now, calls>>
  ELSE /\ last' = Call("delete_version", m, v, "false")
       /\ UNCHANGED <<files, mdirs, store, now, calls>>

\* delete_version removing model_dir, every version of the model with it
DeleteVersionWholeModel(m, v) ==
  IF store[m][v] # NoDir
  THEN /\ store' = [store EXCEPT ![m] = [w \in VersionIds |-> NoDir]]
       /\ mdirs' = mdirs \ {m}
       /\ last' = Call("delete_version", m, v, "true")
       /\ UNCHANGED <<files, now, calls>>
  ELSE /\ last' = Call("delete_version", m, v, "false")
       /\ UNCHANGED <<files, mdirs, store, now, calls>>

\* delete_version(model_name, version_id)
DeleteVersion(m, v) ==
  IF store[m][v] # NoDir
  THEN /\ store' = [store EXCEPT ![m][v] = NoDir]
       /\ last' = Call("delete_version", m, v, "true")
       /\ UNCHANGED <<files, mdirs, now, calls>>
  ELSE /\ last' = Call("delete_version", m, v, "false")
       /\ UNCHANGED <<files, mdirs, store, now, calls>>

\* a call of get_version_comparison(m, v1, v2) and what comes back: the
\* error mapping, an exception or the comparison
GetVersionComparisonCall(m, v1, v2) ==
  LET r == GetVersionComparison(m, v1, v2)
  IN /\ last' = Call("get_version_comparison", m, <<v1, v2>>,
                     IF "error" \in DOMAIN r THEN "error"
                     ELSE IF "raised" \in DOMAIN r THEN r.raised
                     ELSE "result")
     /\ UNCHANGED <<files, mdirs, store, now, calls>>

\* the models a training run saves in the runs explored
TrainRuns ==
  {<<"fraud_detection", 1>>, <<"fraud_detection", 2>>, <<"fraud_detection", 3>>,
   <<"price_prediction", 2>>}

\* the create_version calls explored: copy of the class, model_name,
\* model_file, metadata
CreateArgs ==
  {<<"api", "fraud_detection", ActiveFile("fraud_detection"), "auto">>,
   <<"api", "fraud_detection", "a.bin", "manual">>,
   <<"versioning", "price_prediction", ActiveFile("price_prediction"), "auto">>}

\* the get_version_comparison calls explored: two version ids of the
\* fraud model in every order and with themselves, one of the price model
\* with itself
CompareArgs ==
  LET ids == {GenerateVersionId(<<0, 0>>, 3), GenerateVersionId(<<MaxSec, 0>>, 2)}
  IN {<<"fraud_detection", v1, v2>> : v1 \in ids, v2 \in ids}
     \cup {<<"price_prediction", GenerateVersionId(<<0, 0>>, 2),
             GenerateVersionId(<<0, 0>>, 2)>>}

Next ==
  \/ Tick
  \/ \E mc \in TrainRuns : TrainModel(mc[1], mc[2])
  \/ \E a \in CreateArgs, t2 \in Times : CreateVersion(a[1], a[2], a[3], a[4], t2)
  \/ \E m \in Models : ListVersionsCall(m)
  \/ \E m \in Models : GetLatestVersionCall(m)
  \/ \E m \in Models, v \in VersionIds : RollbackToVersion(m, v)
  \/ \E m \in Models, v \in VersionIds : DeleteVersion(m, v)
  \/ \E a \in CompareArgs : GetVersionComparisonCall(a[1], a[2], a[3])

Spec == Init /\ [][Next]_vars

\* --------------------------------------------- create_version step by step
\* caller c enters create_version; the api copy checks os.path.exists
\* first, the versioning copy fails in the open() of its first hash
CvBegin(c, impl, m, p, md) ==
  /\ calls[c].pc = "idle"
  /\ IF files[p] = NoFile
     THEN /\ last' = Call("create_version", m, NoVid, "FileNotFoundError")
          /\ UNCHANGED calls
     ELSE /\ calls' = [calls EXCEPT ![c] =
                        [pc |-> "generate", impl |-> impl, model |-> m, path |-> p,
                         md |-> md, version |-> NoVid, created_at |-> <<>>,
                         copied |-> NoFile, hashed |-> NoFile, sized |-> NoFile,
                         overlap |-> \E c2 \in Callers \ {c} :
                                       calls[c2].pc \notin {"idle", "done"}]]
          /\ UNCHANGED last
  /\ UNCHANGED <<files, mdirs, store, now>>

\* version = self.generate_version_id(model_file)
CvGenerate(c) ==
  /\ calls[c].pc = "generate"
  /\ calls' = [calls EXCEPT ![c].pc = "makedirs",
                             ![c].version = GenerateVersionId(now, files[calls[c].path])]
  /\ UNCHANGED <<files, mdirs, store, now, last>>

\* os.makedirs(version_dir, exist_ok=True)
CvMakeDirs(c) ==
  LET m == calls[c].model
      v == calls[c].version
  IN /\ calls[c].pc = "makedirs"
     /\ store[m][v] # NoDir \/ NumDirs < MaxDirs
     /\ mdirs' = mdirs \cup {m}
     /\ store' = [store EXCEPT ![m][v] = MakeDirs(store[m][v])]
     /\ calls' = [calls EXCEPT ![c].pc = "copy"]
     /\ UNCHANGED <<files, now, last>>

\* shutil.copy2(model_file, version_dir)
CvCopy(c) ==
  LET m == calls[c].model
      v == calls[c].version
      p == calls[c].path
  IN /\ calls[c].pc = "copy"
     /\ store' = [store EXCEPT ![m][v] = Copy2(store[m][v], p, files[p])]
     /\ calls' = [calls EXCEPT ![c].pc = "hash", ![c].copied = files[p]]
     /\ UNCHANGED <<files, mdirs, now, last>>

\* "created_at": datetime.utcnow().isoformat(),
\* "file_hash": self.calculate_file_hash(model_file)
CvHash(c) ==
  /\ calls[c].pc = "hash"
  /\ calls' = [calls EXCEPT ![c].pc = "size",
                             ![c].created_at = now,
                             ![c].hashed = files[calls[c].path]]
  /\ UNCHANGED <<files, mdirs, store, now, last>>

\* "file_size_bytes": os.path.getsize(model_file), in the api copy only
CvSize(c) ==
  /\ calls[c].pc = "size"
  /\ calls' = [calls EXCEPT ![c].pc = "open",
                             ![c].sized = files[calls[c].path]]
  /\ UNCHANGED <<files, mdirs, store, now, last>>

\* open(os.path.join(version_dir, "metadata.json"), "w"): the file is
\* made, or cut to length zero, and stays so until the with block ends
CvOpen(c) ==
  LET k == calls[c]
  IN /\ k.pc = "open"
     /\ store' = [store EXCEPT ![k.model][k.version] = WriteMetadata(@, Torn)]
     /\ calls' = [calls EXCEPT ![c].pc = "write"]
     /\ UNCHANGED <<files, mdirs, now, last>>

\* the metadata written to one metadata.json shared by the versions of the
\* model, as with a path built from model_dir in place of version_dir
CvWriteThenShared(c, after) ==
  LET k == calls[c]
      meta == VersionMetadata(k.impl, k.version, k.model, k.created_at, k.md,
                              k.hashed, k.sized)
  IN /\ k.pc = "write"
     /\ store' = [store EXCEPT ![k.model] =
                    [v \in VersionIds |->
                       IF @[v] = NoDir THEN NoDir ELSE WriteMetadata(@[v], meta)]]
     /\ last' = Call("create_version", k.model, k.version, "version")
     /\ calls' = [calls EXCEPT ![c] = after]
     /\ UNCHANGED <<files, mdirs, now>>

\* json.dump(version_metadata, f) and the end of the with block; return
\* version, which leaves the caller in the state after
CvWriteThen(c, after) ==
  LET k == calls[c]
      meta == VersionMetadata(k.impl, k.version, k.model, k.created_at, k.md,
                              k.hashed, k.sized)
  IN /\ k.pc = "write"
     /\ store' = [store EXCEPT ![k.model][k.version] = WriteMetadata(@, meta)]
     /\ last' = Call("create_version", k.model, k.version, "version")
     /\ calls' = [calls EXCEPT ![c] = after]
     /\ UNCHANGED <<files, mdirs, now>>

\* the call returns and the caller is free for its next call
CvWrite(c) == CvWriteThen(c, Idle)

\* the call returns and the caller keeps what the call did
CvFinish(c) == CvWriteThen(c, [calls[c] EXCEPT !.pc = "done"])

\* the training runs and create_version calls explored step by step
ConcTrainRuns == {<<"fraud_detection", 1>>, <<"fraud_detection", 2>>}

ConcCreateArgs ==
  {<<"api", "fraud_detection", ActiveFile("fraud_detection"), "auto">>,
   <<"versioning", "fraud_detection", "a.bin", "manual">>}

\* the one caller of the runs in which create_version meets training
\* runs, rollbacks and listings
Solo == {"c1"}

\* create_version running while the clock moves, training runs save
\* models and other callers roll back
NextConc ==
  \/ Tick
  \/ \E mc \in ConcTrainRuns : TrainModel(mc[1], mc[2])
  \/ \E c \in Solo, a \in ConcCreateArgs : CvBegin(c, a[1], a[2], a[3], a[4])
  \/ \E c \in Solo : CvGenerate(c)
  \/ \E c \in Solo : CvMakeDirs(c)
  \/ \E c \in Solo : CvCopy(c)
  \/ \E c \in Solo : CvHash(c)
  \/ \E c \in Solo : CvSize(c)
  \/ \E c \in Solo : CvOpen(c)
  \/ \E c \in Solo : CvWrite(c)
  \/ \E v \in VersionIds : RollbackToVersion("fraud_detection", v)
  \/ ListVersionsCall("fraud_detection")

SpecConc == Init /\ [][NextConc]_vars

\* ------------------------------------------ two create_version calls at once
\* the one call each of the two callers makes: caller, copy of the class,
\* model_name, model_file, metadata
PairCreateArgs ==
  {<<"c1", "api", "fraud_detection", ActiveFile("fraud_detection"), "auto">>,
   <<"c2", "api", "fraud_detection", "a.bin", "manual">>}

PairTrainRuns == {<<"fraud_detection", 2>>, <<"fraud_detection", 3>>}

\* two callers run create_version once each, their steps in any order,
\* while the clock moves and training runs save models
NextPair ==
  \/ Tick
  \/ \E mc \in PairTrainRuns : TrainModel(mc[1], mc[2])
  \/ \E a \in PairCreateArgs : CvBegin(a[1], a[2], a[3], a[4], a[5])
  \/ \E c \in Callers : CvGenerate(c)
  \/ \E c \in Callers : CvMakeDirs(c)
  \/ \E c \in Callers : CvCopy(c)
  \/ \E c \in Callers : CvHash(c)
  \/ \E c \in Callers : CvSize(c)
  \/ \E c \in Callers : CvOpen(c)
  \/ \E c \in Callers : CvFinish(c)
  \/ ListVersionsCall("fraud_detection")

SpecPair == Init /\ [][NextPair]_vars

\* ------------------------------------------- rollback_to_version step by step
\* no create_version, rollback_to_version or delete_version call is under
\* way and none has been made step by step
AllIdle == \A c \in Callers : calls[c].pc = "idle"

\* caller c enters rollback_to_version(m, v): the os.path.exists test and
\* the os.listdir of the version directory, f being model_files[0]
RbBegin(c, m, v) ==
  /\ calls[c].pc = "idle"
  /\ IF store[m][v] = NoDir
     THEN /\ last' = Call("rollback_to_version", m, v, "ValueError")
          /\ UNCHANGED calls
     ELSE IF ModelFiles(store[m][v]) = {}
     THEN /\ last' = Call("rollback_to_version", m, v, "false")
          /\ UNCHANGED calls
     ELSE /\ \E f \in ModelFiles(store[m][v]) :
               calls' = [calls EXCEPT ![c] =
                           [pc |-> "rb_open", model |-> m, vid |-> v,
                            src |-> store[m][v].files[f], wrote |-> 0]]
          /\ UNCHANGED last
  /\ UNCHANGED <<files, mdirs, store, now>>

\* shutil.copy2(source, destination) opens the destination with "wb"
RbOpen(c) ==
  LET k == calls[c]
  IN /\ k.pc = "rb_open"
     /\ files' = [files EXCEPT ![ActiveFile(k.model)] = Truncated]
     /\ calls' = [calls EXCEPT ![c].pc = "rb_write"]
     /\ UNCHANGED <<mdirs, store, now, last>>

\* shutil.copy2 writes the bytes of the source from the start of the
\* destination; return True. wrote counts the writes in their order
RbWrite(c) ==
  LET k == calls[c]
  IN /\ k.pc = "rb_write"
     /\ files' = [files EXCEPT ![ActiveFile(k.model)] = WriteOver(@, k.src)]
     /\ calls' = [calls EXCEPT ![c].pc = "rb_done",
                                ![c].wrote = 1 + Cardinality({d \in Callers :
                                                   calls[d].pc = "rb_done"})]
     /\ last' = Call("rollback_to_version", k.model, k.vid, "true")
     /\ UNCHANGED <<mdirs, store, now>>

\* the training runs that set the store up for the rollbacks
RbTrainRuns == {<<"fraud_detection", 2>>, <<"fraud_detection", 3>>}

\* versions are made by calls that run from call to return, then two
\* callers run rollback_to_version once each, their steps in any order
NextRb ==
  \/ AllIdle /\ Tick
  \/ AllIdle /\ \E mc \in RbTrainRuns : TrainModel(mc[1], mc[2])
  \/ AllIdle /\ CreateVersion("api", "fraud_detection",
                              ActiveFile("fraud_detection"), "auto", now)
  \/ \E c \in Callers, v \in VersionIds : RbBegin(c, "fraud_detection", v)
  \/ \E c \in Callers : RbOpen(c)
  \/ \E c \in Callers : RbWrite(c)

SpecRb == Init /\ [][NextRb]_vars

\* ------------------------------------------------ delete_version step by step
MetadataName == "metadata.json"

\* caller c enters delete_version(m, v): the os.path.exists test and the
\* os.scandir with which shutil.rmtree lists the directory
DvBegin(c, m, v) ==
  /\ calls[c].pc = "idle"
  /\ IF store[m][v] = NoDir
     THEN /\ last' = Call("delete_version", m, v, "false")
          /\ UNCHANGED calls
     ELSE /\ calls' = [calls EXCEPT ![c] =
                         [pc |-> "dv_unlink", model |-> m, vid |-> v,
                          entries |-> Artifacts(store[m][v]) \cup
                                        (IF store[m][v].meta = NoMeta THEN {}
                                         ELSE {MetadataName})]]
          /\ UNCHANGED last
  /\ UNCHANGED <<files, mdirs, store, now>>

\* shutil.rmtree unlinks one of the entries it listed, in the order of
\* os.scandir
DvUnlink(c) ==
  LET k == calls[c]
  IN /\ k.pc = "dv_unlink"
     /\ \E e \in k.entries :
          /\ store' = [store EXCEPT ![k.model][k.vid] =
                         IF e = MetadataName THEN WriteMetadata(@, NoMeta)
                         ELSE [@ EXCEPT !.files =
                                 [g \in (DOMAIN @) \ {e} |-> @[g]]]]
          /\ calls' = [calls EXCEPT ![c].entries = @ \ {e}]
     /\ UNCHANGED <<files, mdirs, now, last>>

\* shutil.rmtree removes the directory, which fails when a file has been
\* put into it since the listing; return True
DvRmdir(c) ==
  LET k == calls[c]
  IN /\ k.pc = "dv_unlink"
     /\ k.entries = {}
     /\ IF store[k.model][k.vid] = EmptyDir
        THEN /\ store' = [store EXCEPT ![k.model][k.vid] = NoDir]
             /\ last' = Call("delete_version", k.model, k.vid, "true")
        ELSE /\ last' = Call("delete_version", k.model, k.vid, "OSError")
             /\ UNCHANGED store
     /\ calls' = [calls EXCEPT ![c] = Idle]
     /\ UNCHANGED <<files, mdirs, now>>

\* the training runs and create_version calls that meet the delete
DelTrainRuns == {<<"fraud_detection", 2>>, <<"fraud_detection", 3>>}

DelCreateArgs ==
  {<<"api", "fraud_detection", ActiveFile("fraud_detection"), "auto">>,
   <<"api", "fraud_detection", "a.bin", "manual">>}

\* delete_version runs step by step while versions are made and listed
NextDel ==
  \/ Tick
  \/ \E mc \in DelTrainRuns : TrainModel(mc[1], mc[2])
  \/ \E a \in DelCreateArgs : CreateVersion(a[1], a[2], a[3], a[4], now)
  \/ \E c \in Solo, v \in VersionIds : DvBegin(c, "fraud_detection", v)
  \/ \E c \in Solo : DvUnlink(c)
  \/ \E c \in Solo : DvRmdir(c)
  \/ ListVersionsCall("fraud_detection")
  \/ GetLatestVersionCall("fraud_detection")

SpecDel == Init /\ [][NextDel]_vars

\* ------------------------------------------------------- the HTTP endpoints
\* the elements of a sequence
Range(s) == {s[i] : i \in 1 .. Len(s)}

\* the answer of a versioning endpoint: its HTTP status and what the
\* operation under it did
Response(status, cause) == [status |-> status, cause |-> cause]

\* glob.glob("models/<m>.pkl")
GlobPlain(m) == {p \in Paths : p = PlainFile(m) /\ files[p] # NoFile}

\* glob.glob("models/<m>_*.pkl")
GlobStar(m) ==
  {p \in Paths : /\ files[p] # NoFile
                 /\ \E n \in ModelNames :
                      IsPrefix(m, n) /\ p \in {ActiveFile(n), ScalerFile(n)}}

\* the files of which create_model_version takes one as model_file
ModelFileCandidates(m) ==
  IF files[ActiveFile(m)] # NoFile THEN {ActiveFile(m)}
  ELSE IF GlobPlain(m) # {} THEN GlobPlain(m)
  ELSE GlobStar(m)

\* the store st after create_version(m, p, md) has run from call to return
\* with the clock at t, p holding c
StoreAfterCreate(st, m, p, c, md, t) ==
  LET version == GenerateVersionId(t, c)
      d1 == MakeDirs(st[m][version])
      d2 == Copy2(d1, p, c)
      meta == VersionMetadata("api", version, m, t, md, c, c)
  IN [st EXCEPT ![m][version] = WriteMetadata(d2, meta)]

\* POST /api/v1/versions/{model_name}/create; raised says that the
\* operating system refused os.makedirs
ApiCreate(m, md, raised) ==
  IF ModelFileCandidates(m) = {}
  THEN /\ last' = Call("create_model_version", m, NoVid,
                       Response(500, "no_model_file"))
       /\ UNCHANGED <<files, mdirs, store, now, calls>>
  ELSE IF raised
  THEN /\ last' = Call("create_model_version", m, NoVid,
                       Response(500, "raised"))
       /\ UNCHANGED <<files, mdirs, store, now, calls>>
  ELSE \E p \in ModelFileCandidates(m) :
         /\ store' = StoreAfterCreate(store, m, p, files[p], md, now)
         /\ NumDirsOf(store') <= MaxDirs
         /\ mdirs' = mdirs \cup {m}
         /\ last' = Call("create_model_version", m,
                         GenerateVersionId(now, files[p]),
                         Response(200, "version"))
         /\ UNCHANGED <<files, now, calls>>

\* POST /api/v1/versions/{model_name}/rollback/{version_id}
ApiRollback(m, v) ==
  IF store[m][v] = NoDir
  THEN /\ last' = Call("rollback_model_version", m, v, Response(500, "raised"))
       /\ UNCHANGED <<files, mdirs, store, now, calls>>
  ELSE IF ModelFiles(store[m][v]) # {}
  THEN /\ \E f \in ModelFiles(store[m][v]) :
            files' = [files EXCEPT ![ActiveFile(m)] = store[m][v].files[f]]
       /\ last' = Call("rollback_model_version", m, v, Response(200, "true"))
       /\ UNCHANGED <<mdirs, store, now, calls>>
  ELSE /\ last' = Call("rollback_model_version", m, v, Response(500, "false"))
       /\ UNCHANGED <<files, mdirs, store, now, calls>>

\* DELETE /api/v1/versions/{model_name}/{version_id}
ApiDelete(m, v) ==
  IF store[m][v] = NoDir
  THEN /\ last' = Call("delete_model_version", m, v, Response(500, "false"))
       /\ UNCHANGED <<files, mdirs, store, now, calls>>
  ELSE /\ store' = [store EXCEPT ![m][v] = NoDir]
       /\ last' = Call("delete_model_version", m, v, Response(200, "true"))
       /\ UNCHANGED <<files, mdirs, now, calls>>

\* POST /api/v1/predict/real/{model_name}: the current_version of the
\* answer
ApiPredict(m) ==
  /\ \E o \in ListDirOrders(m) :
       LET versions == ListVersions(m, o)
       IN last' = Call("predict_real", m,
                       IF versions = <<>> THEN NoVid ELSE versions[1].version,
                       Response(200, "prediction"))
  /\ UNCHANGED <<files, mdirs, store, now, calls>>

\* the files after the first k trainings of a run have saved their models
\* and scalers; run[i] is what training i saves as its model
FilesAfterTraining(run, k) ==
  [p \in Paths |->
     IF \E i \in 1 .. k : p = ActiveFile(TrainOrder[i])
     THEN run[CHOOSE i \in 1 .. k : p = ActiveFile(TrainOrder[i])]
     ELSE IF \E i \in 1 .. k : p = ScalerFile(TrainOrder[i]) THEN ScalerContent
     ELSE files[p]]

\* the three try blocks of train_models from block i on, each on its own,
\* with the clock at t: the store, the versioned_models list and the
\* models for which the warning is printed; the create_version calls for
\* the models in fails raise
RECURSIVE VersionTrainedStopsAtFailure(_, _, _, _, _, _, _)
VersionTrainedStopsAtFailure(st, versioned, warned, i, run, fails, t) ==
  IF i > Len(TrainOrder)
  THEN [store |-> st, versioned |-> versioned, warned |-> warned]
  ELSE LET m == TrainOrder[i]
       IN IF m \in fails
          THEN [store |-> st, versioned |-> versioned,
                warned |-> warned \cup {m}]
          ELSE VersionTrainedStopsAtFailure(
                 StoreAfterCreate(st, m, ActiveFile(m), run[i], "auto", t),
                 Append(versioned,
                        [model |-> m,
                         version |-> GenerateVersionId(t, run[i])]),
                 warned, i + 1, run, fails, t)

RECURSIVE VersionTrained(_, _, _, _, _, _, _)
VersionTrained(st, versioned, warned, i, run, fails, t) ==
  IF i > Len(TrainOrder)
  THEN [store |-> st, versioned |-> versioned, warned |-> warned]
  ELSE LET m == TrainOrder[i]
       IN IF m \in fails
          THEN VersionTrained(st, versioned, warned \cup {m}, i + 1, run, fails, t)
          ELSE VersionTrained(
                 StoreAfterCreate(st, m, ActiveFile(m), run[i], "auto", t),
                 Append(versioned,
                        [model |-> m,
                         version |-> GenerateVersionId(t, run[i])]),
                 warned, i + 1, run, fails, t)

\* the body of the answer of the train endpoint
TrainResponse(status, trained, warned) ==
  [status |-> status, trained |-> trained, warned |-> warned]

\* POST /api/v1/train: k of the three trainings return, the others are not
\* reached when one raises; the trainings take until the clock reads t
ApiTrain(run, k, fails, t) ==
  /\ t # now
  /\ TimeLeq(now, t)
  /\ now' = t
  /\ files' = FilesAfterTraining(run, k)
  /\ IF k < Len(TrainOrder)
     THEN /\ last' = Call("train_models", "-", NoVid,
                          TrainResponse("error", k, {}))
          /\ UNCHANGED <<mdirs, store>>
     ELSE LET r == VersionTrained(store, <<>>, {}, 1, run, fails, t)
          IN /\ NumDirsOf(r.store) <= MaxTrainDirs
             /\ store' = r.store
             /\ mdirs' = mdirs \cup {e.model : e \in Range(r.versioned)}
             /\ last' = Call("train_models", "-", r.versioned,
                             TrainResponse("success", k, r.warned))
  /\ UNCHANGED calls

\* the model names of the requests to the versioning endpoints
ApiModels == {"fraud_detection", "fraud"}

\* the requests to the train endpoint between them: what the trainings
\* save, and the models whose create_version call raises
ApiVersionedRuns == {<<2, 3, 1>>, <<3, 3, 1>>}

ApiVersioningFails == ServedModels \ {"fraud_detection"}

\* the versioning endpoints and the prediction endpoint, each request
\* handled from start to answer
NextApi ==
  \/ Tick
  \/ \E run \in ApiVersionedRuns, t \in Times :
       ApiTrain(run, Len(TrainOrder), ApiVersioningFails, t)
  \/ \E m \in ApiModels, raised \in BOOLEAN : ApiCreate(m, "manual", raised)
  \/ \E m \in ApiModels, v \in VersionIds : ApiRollback(m, v)
  \/ \E m \in ApiModels, v \in VersionIds : ApiDelete(m, v)
  \/ ApiPredict("fraud_detection")

SpecApi == Init /\ [][NextApi]_vars

\* what the trainings of a run save as the three models
ApiTrainRuns == {<<2, 3, 1>>}

\* the train endpoint, with versions deleted between the requests
NextTrain ==
  \/ Tick
  \/ \E run \in ApiTrainRuns, k \in 0 .. Len(TrainOrder),
        fails \in SUBSET ServedModels, t \in Times : ApiTrain(run, k, fails, t)
  \/ \E m \in ServedModels, v \in VersionIds : ApiDelete(m, v)

SpecTrain == Init /\ [][NextTrain]_vars

\* ------------------------------------------------------- what callers see
\* the records and the version ids list_versions(m) returns, none when it
\* raises
ListedRecords(m) ==
  {r \in Range(ListVersions(m, CHOOSE o \in ListDirOrders(m) : TRUE)) :
     "error" \notin DOMAIN r}

ListedIds(m) == {r.version : r \in ListedRecords(m)}

\* version directory v of model m has a metadata.json that list_versions
\* loads: model_dir exists and so does model_dir/v/metadata.json
Listed(m, v) ==
  /\ m \in mdirs
  /\ store[m][v] # NoDir
  /\ store[m][v].meta # NoMeta
  /\ store[m][v].meta # Torn

\* the clock reading an isoformat() string was made from
IsoParse(s) == IF Len(s) = 1 THEN <<s[1], 0>> ELSE <<s[1], s[2]>>

TypeOK ==
  /\ files \in [Paths -> Contents \cup {NoFile, Truncated, Mixed}]
  /\ mdirs \subseteq ModelNames
  /\ now \in Times
  /\ \A m \in Models : Entries(m) # {} => m \in mdirs

\* ------------------------------------------------------------------ claims

\* C1: a create_version call that returns a version id, followed by
\* list_versions for that model, shows exactly one record that was not
\* listed before the call, and the file_hash of that record is the digest
\* of the content the source artifact had when the call was made.
C1_CreateAddsOneRecord ==
  [][\A a \in CreateArgs, t2 \in Times :
       (CreateVersion(a[1], a[2], a[3], a[4], t2) /\ files[a[3]] # NoFile)
       => /\ Cardinality(ListedRecords(a[2])' \ ListedRecords(a[2])) = 1
          /\ \A r \in ListedRecords(a[2])' \ ListedRecords(a[2]) :
               r.file_hash = CalculateFileHash(files[a[3]])]_vars

\* C2: for every version record that list_versions returns, the file_hash
\* of the record is the digest of an artifact file stored in the directory
\* of that version, also when the source artifact is overwritten while
\* create_version runs.
C2_HashMatchesStoredArtifact ==
  \A m \in Models : \A r \in ListedRecords(m) :
    \E f \in Artifacts(store[m][r.version]) :
      r.file_hash = CalculateFileHash(store[m][r.version].files[f])

\* C3: after any sequence of completed calls every version directory holds
\* exactly one artifact file and exactly one metadata file.
C3_OneArtifactOneMetadata ==
  \A m \in Models : \A v \in Entries(m) :
    /\ Cardinality(Artifacts(store[m][v])) = 1
    /\ store[m][v].meta # NoMeta

\* C4: whenever rollback_to_version(m, v) returns True, the active artifact
\* of m has the content of the artifact stored under version v.
C4_RollbackRestoresArtifact ==
  (last.op = "rollback_to_version" /\ last.res = "true")
  => /\ store[last.model][last.vid] # NoDir
     /\ files[ActiveFile(last.model)] \in
          {store[last.model][last.vid].files[f] :
             f \in ModelFiles(store[last.model][last.vid])}

\* a rollback returned True and the active artifact is the stored one,
\* after a training run had replaced it by something else
C4_Witness ==
  /\ last.op = "rollback_to_version" /\ last.res = "true"
  /\ store[last.model][last.vid].meta # NoMeta
  /\ store[last.model][last.vid].meta.file_hash =
       CalculateFileHash(files[ActiveFile(last.model)])
  /\ \E v \in Entries(last.model) :
       v # last.vid /\ ModelFiles(store[last.model][v]) # {}

\* C5: rollback_to_version(m, v) for a version directory that does not
\* exist fails with the not-found error (ValueError) and changes neither
\* an active artifact nor the version store.
C5_RollbackMissingVersion ==
  [][(last'.op = "rollback_to_version" /\ store[last'.model][last'.vid] = NoDir)
     => /\ last'.res = "ValueError"
        /\ files' = files
        /\ store' = store
        /\ mdirs' = mdirs]_vars

\* a rollback to a missing version has failed while the model had an
\* active artifact and another version
C5_Witness ==
  /\ last.op = "rollback_to_version" /\ last.res = "ValueError"
  /\ files[ActiveFile(last.model)] # NoFile
  /\ Entries(last.model) # {}

\* C6 as stated: once delete_version(m, v) has returned, no operation that
\* follows makes list_versions(m) return a record with version id v; here
\* for the calls that found version v and removed it.
C6_DeletedNeverListedAgain ==
  [][\A m \in Models : \A v \in VersionIds :
       (last.op = "delete_version" /\ last.res = "true" /\ last.model = m /\ last.vid = v)
       => ~Listed(m, v)']_vars

\* C6 as amended: when delete_version(m, v) returns, list_versions(m) has no
\* record with version id v, and v is listed again only by a create_version
\* call for m that returns the id v.
C6_DeletedUntilCreatedAgain ==
  [][\A m \in Models : \A v \in VersionIds :
       /\ (last'.op = "delete_version" /\ last'.model = m /\ last'.vid = v)
            => ~Listed(m, v)'
       /\ (~Listed(m, v) /\ Listed(m, v)')
            => (last'.op = "create_version" /\ last'.model = m /\ last'.vid = v)]_vars

\* a delete has removed a version while another version of the model stays
C6_Witness ==
  /\ last.op = "delete_version" /\ last.res = "true"
  /\ ~Listed(last.model, last.vid)
  /\ \E v \in VersionIds : Listed(last.model, v)

\* C7: list_versions(m) returns one record per version directory of m that
\* has a metadata file, newest first: of two adjacent records the earlier
\* one was not created before the later one.
C7_ListSortedNewestFirst ==
  \A m \in Models : \A o \in ListDirOrders(m) :
    LET r == ListVersions(m, o)
        withMeta == {v \in Entries(m) : store[m][v].meta # NoMeta}
    IN /\ Len(r) = Cardinality(withMeta)
       /\ {r[i].version : i \in 1 .. Len(r)} = withMeta
       /\ \A v \in VersionIds : Listed(m, v) <=> v \in withMeta
       /\ \A i \in 1 .. Len(r) : r[i] = store[m][r[i].version].meta
       /\ \A i \in 1 .. Len(r) - 1 :
            /\ ~StrLess(r[i].created_at, r[i + 1].created_at)
            /\ TimeLeq(IsoParse(r[i + 1].created_at), IsoParse(r[i].created_at))

\* list_versions has returned for a model with two versions created at
\* different times
C7_Witness ==
  /\ last.op = "list_versions" /\ last.res = "records"
  /\ \E r1, r2 \in ListedRecords(last.model) : r1.created_at # r2.created_at

\* C8: list_versions(m) returns the empty sequence when m has no version
\* root directory and when the root holds no version.
C8_ListEmpty ==
  \A m \in Models :
    (m \notin mdirs \/ Entries(m) = {})
    => \A o \in ListDirOrders(m) : ListVersions(m, o) = <<>>

\* list_versions has returned the empty sequence for a model whose root
\* exists and whose last version was deleted
C8_Witness ==
  /\ last.op = "list_versions" /\ last.res = "empty"
  /\ last.model \in mdirs
  /\ Entries(last.model) = {}

\* C9: get_latest_version(m) is the first element of list_versions(m) when
\* that sequence is not empty, and None exactly when it is empty.
C9_LatestIsFirstListed ==
  \A m \in Models : \A o \in ListDirOrders(m) :
    /\ Len(ListVersions(m, o)) > 0 => GetLatestVersion(m, o) = Head(ListVersions(m, o))
    /\ (GetLatestVersion(m, o) = None) <=> (Len(ListVersions(m, o)) = 0)

\* get_latest_version has returned a record for a model with two versions
\* created at different times
C9_Witness ==
  /\ last.op = "get_latest_version" /\ last.res = "record"
  /\ \E r1, r2 \in ListedRecords(last.model) : r1.created_at # r2.created_at

\* C10: delete_version(m, v) returns True exactly when the directory of v
\* exists at the call and removes it whole; otherwise it returns False and
\* changes nothing; every other version directory and every file outside
\* the store stay as they were, and a second delete_version(m, v) returns
\* False.
C10_DeleteFrame ==
  [][last'.op = "delete_version"
     => LET m == last'.model
            v == last'.vid
        IN /\ (last'.res = "true") <=> (store[m][v] # NoDir)
           /\ last'.res \in {"true", "false"}
           /\ store'[m][v] = NoDir
           /\ \A m2 \in Models : \A v2 \in VersionIds :
                <<m2, v2>> # <<m, v>> => store'[m2][v2] = store[m2][v2]
           /\ files' = files
           /\ mdirs' = mdirs
           /\ (last.op = "delete_version" /\ last.model = m /\ last.vid = v)
                => last'.res = "false"]_vars

\* a delete has removed a version directory while another version
\* directory and the active artifact of the model exist
C10_Witness ==
  /\ last.op = "delete_version" /\ last.res = "true"
  /\ store[last.model][last.vid] = NoDir
  /\ NumDirs > 0
  /\ files[ActiveFile(last.model)] # NoFile

\* C11: create_version called with a source artifact path that does not
\* exist fails with the not-found error (FileNotFoundError) and creates no
\* model directory, no version directory and no file in the store, in both
\* copies of class ModelVersioning.
C11_CreateMissingSource ==
  [][last'.op = "create_version"
     => /\ \A a \in CreateArgs :
             (files[a[3]] = NoFile /\ CreateVersion(a[1], a[2], a[3], a[4], now))
             => last'.res = "FileNotFoundError"
        /\ last'.res = "FileNotFoundError"
             => /\ mdirs' = mdirs
                /\ store' = store
                /\ files' = files]_vars

\* create_version of the versioning copy has failed on a missing source
\* while the store holds versions of the other model
C11_Witness ==
  /\ last.op = "create_version" /\ last.res = "FileNotFoundError"
  /\ last.model = "price_prediction"
  /\ files[ActiveFile("price_prediction")] = NoFile
  /\ "price_prediction" \notin mdirs
  /\ Entries("fraud_detection") # {}

\* C12: a create_version call returns the version id of an earlier call for
\* the same model exactly when both calls were made in the same clock second
\* on byte-identical content; in every other case it returns another id and
\* leaves the directory of the earlier version as it was, its own directory
\* holding the artifact it copied.
C12_SameIdIffSameSecondAndContent ==
  [][\A a \in CreateArgs, t2 \in Times :
       (CreateVersion(a[1], a[2], a[3], a[4], t2) /\ files[a[3]] # NoFile)
       => \A v \in VersionIds :
            Listed(a[2], v)
            => /\ (last'.vid = v) <=>
                    /\ v[2] = StrfTime(now)
                    /\ store[a[2]][v].meta.file_hash = CalculateFileHash(files[a[3]])
               /\ (last'.vid # v) =>
                    /\ store'[a[2]][v] = store[a[2]][v]
                    /\ store'[a[2]][last'.vid].files[a[3]] = files[a[3]]]_vars

\* C13: from the moment list_versions returns a version id until the version
\* is deleted, its record and its stored artifact do not change, whatever
\* create_version, rollback_to_version and delete_version calls on other ids
\* are made; a rollback to the version itself and the read operations leave
\* it alone as well.
C13_VersionImmutable ==
  [][\A m \in Models : \A v \in VersionIds :
       (/\ Listed(m, v)
        /\ ~(/\ last'.op \in {"create_version", "delete_version"}
             /\ last'.model = m
             /\ last'.vid = v))
       => store'[m][v] = store[m][v]]_vars

\* a create_version call has returned a new id for a model that has an
\* older version, made from other content
C13_Witness ==
  /\ last.op = "create_version" /\ last.res = "version"
  /\ \E v \in VersionIds :
       /\ v # last.vid
       /\ Listed(last.model, v)
       /\ store[last.model][v].meta.file_hash #
            store[last.model][last.vid].meta.file_hash
  /\ files[ActiveFile(last.model)] # NoFile

\* C14: a version that list_versions(m) returns stops being returned only
\* by a delete_version(m, v) call that returns True; no other operation
\* removes a version.
C14_RemovedOnlyByDelete ==
  [][\A m \in Models : \A v \in VersionIds :
       (Listed(m, v) /\ ~Listed(m, v)')
       => /\ last'.op = "delete_version"
          /\ last'.model = m
          /\ last'.vid = v
          /\ last'.res = "true"]_vars

\* a delete has removed the only version of a model, after which
\* list_versions has nothing to return for it
C14_Witness ==
  /\ last.op = "delete_version" /\ last.res = "true"
  /\ last.model \in mdirs
  /\ Entries(last.model) = {}
  /\ \A v \in VersionIds : ~Listed(last.model, v)

\* C15: for every version v that model m has, comparing v with itself
\* reports same_hash true and size_difference 0.
C15_CompareWithItself ==
  \A m \in Models : \A v \in VersionIds :
    Listed(m, v)
    => LET r == GetVersionComparison(m, v, v)
       IN /\ "comparison" \in DOMAIN r
          /\ r.comparison.same_hash = TRUE
          /\ r.comparison.size_difference = 0

\* a version has been compared with itself, for a model that has another
\* version of another size
C15_Witness ==
  /\ last.op = "get_version_comparison" /\ last.res = "result"
  /\ last.vid[1] = last.vid[2]
  /\ \E v \in VersionIds :
       /\ Listed(last.model, v)
       /\ store[last.model][v].meta.file_size_bytes #
            store[last.model][last.vid[1]].meta.file_size_bytes

\* C16: get_version_comparison returns the error mapping, and raises
\* nothing, when the metadata of one or of both versions is missing, and
\* never returns it when both records exist; the call leaves the store and
\* the active artifacts as they were.
C16_CompareMissingMetadata ==
  [][last'.op = "get_version_comparison"
     => LET m == last'.model
            a == last'.vid[1]
            b == last'.vid[2]
        IN /\ last'.res \in {"error", "result"}
           /\ (last'.res = "error") <=> (~MetadataExists(m, a) \/ ~MetadataExists(m, b))
           /\ (~MetadataExists(m, a) \/ ~MetadataExists(m, b))
                => GetVersionComparison(m, a, b) = NotFoundResult
           /\ store' = store
           /\ mdirs' = mdirs
           /\ files' = files]_vars

\* a comparison of a version that exists with one that does not has
\* returned the error mapping
C16_Witness ==
  /\ last.op = "get_version_comparison" /\ last.res = "error"
  /\ MetadataExists(last.model, last.vid[1])
  /\ ~MetadataExists(last.model, last.vid[2])
  /\ files[ActiveFile(last.model)] # NoFile

\* C17: for two versions a and b that exist the comparison reports
\* same_hash true exactly when the recorded file_hash values are equal,
\* size_difference as the recorded size of b minus that of a, and the time
\* flag true exactly when the created_at of b is greater than that of a;
\* with a and b swapped size_difference is negated, same_hash is the same
\* and the time flag is true in at most one of the two orders.
C17_CompareReports ==
  \A m \in Models : \A a, b \in VersionIds :
    (Listed(m, a) /\ Listed(m, b))
    => LET ra == store[m][a].meta
           rb == store[m][b].meta
           ab == GetVersionComparison(m, a, b).comparison
           ba == GetVersionComparison(m, b, a).comparison
       IN /\ ab.same_hash <=> (ra.file_hash = rb.file_hash)
          /\ (ra.file_size_bytes # Absent /\ rb.file_size_bytes # Absent)
               => ab.size_difference = rb.file_size_bytes - ra.file_size_bytes
          /\ ab.time_difference <=> StrLess(ra.created_at, rb.created_at)
          /\ ab.time_difference <=>
               /\ IsoParse(ra.created_at) # IsoParse(rb.created_at)
               /\ TimeLeq(IsoParse(ra.created_at), IsoParse(rb.created_at))
          /\ ba.size_difference = 0 - ab.size_difference
          /\ ba.same_hash = ab.same_hash
          /\ ~(ab.time_difference /\ ba.time_difference)

\* two versions of different content, size and creation time have been
\* compared, the newer one second
C17_Witness ==
  /\ last.op = "get_version_comparison" /\ last.res = "result"
  /\ last.vid[1] # last.vid[2]
  /\ LET r == GetVersionComparison(last.model, last.vid[1], last.vid[2]).comparison
     IN /\ ~r.same_hash
        /\ r.size_difference # 0
        /\ r.time_difference

\* C18: list_versions(m) skips every entry of the version root of m that
\* has no metadata file, also a directory that a create_version call under
\* way has made or copied into: such an entry gives no record and no
\* error, and every entry with a metadata file gives exactly one record.
C18_ListSkipsEntriesWithoutMetadata ==
  \A m \in Models : \A o \in ListDirOrders(m) :
    LET r == ListVersions(m, o)
        withMeta == {v \in Entries(m) : store[m][v].meta # NoMeta}
    IN /\ \A i \in 1 .. Len(r) : "error" \notin DOMAIN r[i]
       /\ Len(r) = Cardinality(withMeta)
       /\ {r[i].version : i \in 1 .. Len(r)} = withMeta

\* C19: rollback_to_version(m, v) on a version directory that exists and
\* holds no file ending in .pkl returns False and changes neither an active
\* artifact nor the store; so it does for every version that create_version
\* made from a source file of another extension.
C19_RollbackWithoutPkl ==
  [][last'.op = "rollback_to_version"
     => LET m == last'.model
            v == last'.vid
        IN (/\ store[m][v] # NoDir
            /\ \/ ModelFiles(store[m][v]) = {}
               \/ \E f \in Artifacts(store[m][v]) : ~EndsWithPkl(f))
           => /\ last'.res = "false"
              /\ files' = files
              /\ store' = store
              /\ mdirs' = mdirs]_vars

\* C20: two create_version calls whose steps interleave in any order and
\* that get distinct version ids leave, once both have returned, both ids
\* in list_versions, and in each version directory the artifact and the
\* metadata of the call that got its id and nothing else.
C20_ConcurrentCreatesDistinctIds ==
  (/\ \A c \in Callers : calls[c].pc = "done"
   /\ calls["c1"].version # calls["c2"].version)
  => /\ \A c \in Callers :
          LET k == calls[c]
              d == store[k.model][k.version]
          IN /\ d # NoDir
             /\ Artifacts(d) = {k.path}
             /\ d.files[k.path] = k.copied
             /\ d.meta = VersionMetadata(k.impl, k.version, k.model, k.created_at,
                                         k.md, k.hashed, k.sized)
     /\ \A m \in Models : \A o \in ListDirOrders(m) :
          {calls[c].version : c \in {x \in Callers : calls[x].model = m}}
            \subseteq {r.version : r \in Range(ListVersions(m, o))}

\* both calls have returned with distinct ids, the second having started
\* while the first was under way, and list_versions has been called since
C20_Witness ==
  /\ \A c \in Callers : calls[c].pc = "done"
  /\ calls["c1"].version # calls["c2"].version
  /\ \E c \in Callers : calls[c].overlap
  /\ last.op = "list_versions" /\ last.res = "records"

\* C22: every metadata record that create_version writes, in either copy
\* of the class, has the fields version, model_name, created_at, created_by,
\* metadata (what the caller gave), file_hash and file_size_bytes, with
\* version the returned id and the name of the version directory and
\* file_size_bytes the size of the source artifact.
C22_RecordFields ==
  [][\A a \in CreateArgs, t2 \in Times :
       (files[a[3]] # NoFile /\ CreateVersion(a[1], a[2], a[3], a[4], t2))
       => LET v == last'.vid
              r == store'[a[2]][v].meta
          IN /\ store'[a[2]][v] # NoDir
             /\ r.version = v
             /\ r.model_name = a[2]
             /\ r.created_at = IsoFormat(t2)
             /\ r.created_by = "asarekings"
             /\ r.metadata = a[4]
             /\ r.file_hash = CalculateFileHash(files[a[3]])
             /\ r.file_size_bytes # Absent
             /\ r.file_size_bytes = FileSize(files[a[3]])]_vars

\* C25: in a run of calls made one after the other, right after
\* create_version(m, ..) has returned the id v, get_latest_version(m)
\* returns the record of v, whatever versions m has.
C25_CreatedIsLatest ==
  [][\A m \in Models : \A v \in VersionIds :
       (/\ last'.op = "create_version"
        /\ last'.res = "version"
        /\ last'.model = m
        /\ last'.vid = v)
       => \A o \in ListDirOrders(m)' : GetLatestVersion(m, o)'.version = v]_vars

\* C27: a create_version(m, <active artifact of m>, ..) made right after a
\* rollback_to_version(m, v) that returned True gives a version whose
\* file_hash and file_size_bytes are those recorded for v, and comparing v
\* with it reports same_hash true and size_difference 0.
C27_RollbackCreateRoundTrip ==
  [][\A a \in CreateArgs, t2 \in Times : \A v, w \in VersionIds :
       (/\ last.op = "rollback_to_version"
        /\ last.res = "true"
        /\ last.model = a[2]
        /\ last.vid = v
        /\ a[3] = ActiveFile(a[2])
        /\ files[a[3]] # NoFile
        /\ CreateVersion(a[1], a[2], a[3], a[4], t2)
        /\ last'.vid = w)
       => /\ Listed(a[2], v)'
          /\ store'[a[2]][w].meta.file_hash = store'[a[2]][v].meta.file_hash
          /\ store'[a[2]][w].meta.file_size_bytes =
               store'[a[2]][v].meta.file_size_bytes
          /\ GetVersionComparison(a[2], v, w)'.comparison.same_hash
          /\ GetVersionComparison(a[2], v, w)'.comparison.size_difference = 0]_vars

\* C28: rollback_to_version(m, v), whatever it returns, changes nothing
\* but the active artifact of m: version directories, artifacts, records
\* and every other file stay as they are; the same rollback made again
\* after it has returned True leaves the active artifact as it is.
C28_RollbackFrame ==
  [][last'.op = "rollback_to_version"
     => LET m == last'.model
            v == last'.vid
        IN /\ store' = store
           /\ mdirs' = mdirs
           /\ \A p \in Paths \ {ActiveFile(m)} : files'[p] = files[p]
           /\ last'.res # "true" => files' = files
           /\ (/\ last.op = "rollback_to_version"
               /\ last.res = "true"
               /\ last.model = m
               /\ last.vid = v)
              => /\ last'.res = "true"
                 /\ files' = files]_vars

\* a rollback has returned True and put back a content that differs from
\* that of another version of the model, the other model having an active
\* artifact too
C28_Witness ==
  /\ last.op = "rollback_to_version" /\ last.res = "true"
  /\ \E w \in VersionIds :
       /\ w # last.vid
       /\ Listed(last.model, w)
       /\ store[last.model][w].meta.file_hash #
            CalculateFileHash(files[ActiveFile(last.model)])
  /\ \E m \in Models \ {last.model} : files[ActiveFile(m)] # NoFile

\* C21: when two rollback_to_version calls for one model, to the versions
\* v1 and v2, have run at the same time and both have returned, the active
\* artifact is the stored artifact of the call that wrote last, never a
\* mixture and never what the file held before.
C21_LastWriteWins ==
  (/\ \A c \in Callers : calls[c].pc = "rb_done"
   /\ calls["c1"].model = calls["c2"].model)
  => \E c \in Callers :
       /\ calls[c].wrote = Cardinality(Callers)
       /\ files[ActiveFile(calls[c].model)] = calls[c].src

\* C23: no list_versions or get_latest_version call that falls between the
\* steps of create_version and delete_version calls returns a record of a
\* version whose directory holds no completely copied artifact file at
\* that moment.
C23_ListedVersionHasArtifact ==
  \A m \in Models : \A o \in ListDirOrders(m) :
    \A r \in Range(ListVersions(m, o)) :
      "error" \notin DOMAIN r => Artifacts(store[m][r.version]) # {}

\* C24: the versioning endpoints answer a missing target with status 404:
\* the create endpoint when no model file is found, the rollback endpoint
\* when rollback_to_version returned False, the delete endpoint when
\* delete_version returned False; they answer 500 only when the operation
\* raised.
C24_MissingTargetIs404 ==
  last.op \in {"create_model_version", "rollback_model_version",
               "delete_model_version"}
  => /\ last.res.cause \in {"no_model_file", "false"} => last.res.status = 404
     /\ last.res.status = 500 => last.res.cause = "raised"

\* C26: when the active artifact of model m is byte for byte the stored
\* artifact of a listed version of m, the current_version the prediction
\* endpoint reports for m names a version with that stored artifact.
C26_CurrentVersionIsActive ==
  LET m == last.model
      HoldsActive(v) ==
        \E f \in ModelFiles(store[m][v]) :
          store[m][v].files[f] = files[ActiveFile(m)]
  IN (/\ last.op = "predict_real"
      /\ last.vid # NoVid
      /\ \E w \in VersionIds : Listed(m, w) /\ HoldsActive(w))
     => HoldsActive(last.vid)

\* C29: a version the create endpoint makes for model m holds a copy of
\* m's active artifact models/<m>_model.pkl, and a rollback to a version
\* through the endpoint writes into the active artifact what was copied
\* from that path, never the content of another file.
C29_SnapshotIsActiveArtifact ==
  LET m == last.model
      v == last.vid
  IN /\ (last.op = "create_model_version" /\ last.res.status = 200)
        => /\ ActiveFile(m) \in Artifacts(store[m][v])
           /\ store[m][v].files[ActiveFile(m)] = files[ActiveFile(m)]
     /\ (last.op = "rollback_model_version" /\ last.res.status = 200)
        => /\ ActiveFile(m) \in Artifacts(store[m][v])
           /\ files[ActiveFile(m)] = store[m][v].files[ActiveFile(m)]

\* C30: when the train endpoint answers after all three trainings
\* returned, the status is success, models_versioned names exactly the
\* models whose create_version call did not raise, in the order
\* fraud_detection, price_prediction, customer_segmentation, each with a
\* version that the store then holds for the model file just trained, and
\* the store of a model whose call raised is as it was.
C30_TrainVersionsIndependently ==
  [][last'.op = "train_models" =>
       LET r == last'.res
           versioned == last'.vid
           Succeeded(m) == m \notin r.warned
       IN /\ r.trained = Len(TrainOrder) => r.status = "success"
          /\ r.status = "success" =>
               /\ [i \in DOMAIN versioned |-> versioned[i].model]
                    = SelectSeq(TrainOrder, Succeeded)
               /\ \A i \in DOMAIN versioned :
                    LET d == store'[versioned[i].model][versioned[i].version]
                        f == ActiveFile(versioned[i].model)
                    IN /\ d # NoDir
                       /\ f \in Artifacts(d)
                       /\ d.files[f] = files'[f]
                       /\ d.meta # NoMeta
                       /\ d.meta.file_hash = CalculateFileHash(files'[f])
               /\ \A m \in r.warned : store'[m] = store[m]]_vars

\* the create_version call for price_prediction raised and those for
\* fraud_detection and customer_segmentation made their versions
C30_Witness ==
  /\ last.op = "train_models"
  /\ last.res.status = "success"
  /\ last.res.warned = {"price_prediction"}
  /\ Len(last.vid) = 2
  /\ last.vid[1].model = "fraud_detection"
  /\ last.vid[2].model = "customer_segmentation"
  /\ Listed("customer_segmentation", last.vid[2].version)

====
